---- MODULE Spec2Model ----
(***************************************************************************)
(* Job applications, match scoring and the swipe-review workflow of the    *)
(* accounts app (src/accounts/views.py, job_matching.py, models.py,        *)
(* serializers.py).                                                        *)
(*                                                                         *)
(* The database tables are the shared state.  Every HTTP request runs in   *)
(* one of the server's workers; a handler is a sequence of database        *)
(* statements, each of them atomic, and the statements of two requests     *)
(* interleave.  A worker's in-memory objects are kept in local[w].         *)
(* Nullable columns hold None (<<>>) or Some(v) (<<v>>).  Scores and years *)
(* are kept in tenths (one decimal place).                                 *)
(***************************************************************************)
EXTENDS Integers, Sequences, FiniteSets, TLC

VARIABLES job_active, profiles, apps, now, pc, local, resp

vars == <<job_active, profiles, apps, now, pc, local, resp>>

(* ------------------------------ bounds -------------------------------- *)
NumEmployers == 2
NumCandidates == 2
NumWorkers == 2
MaxApps == 2
MaxTime == 3

None == <<>>
Some(v) == <<v>>
IsNone(x) == x = <<>>
Val(x) == x[1]

Employers == 1..NumEmployers
Users == 1..(NumEmployers + NumCandidates)
Candidates == Users \ Employers
Jobs == 1..NumEmployers
Workers == 1..NumWorkers

(* User.is_business: set when a user creates a company. *)
is_business(u) == u \in Employers

(* Job.company.owner: job j belongs to the company of employer j. *)
JobOwner(j) == j

(* ------------------------- scoring: arithmetic ------------------------ *)
(* A score before rounding is an exact fraction <<n, d>> = n/d points.    *)
Max(a, b) == IF a >= b THEN a ELSE b
Min(a, b) == IF a <= b THEN a ELSE b

(* round(n/d) to the nearest integer, ties to even, for n >= 0, d > 0. *)
RoundHalfEven(n, d) ==
    LET q == n \div d
        r == n % d
    IN  IF 2 * r < d THEN q
        ELSE IF 2 * r > d THEN q + 1
        ELSE IF q % 2 = 0 THEN q ELSE q + 1

(* round(score, 1), in tenths of a point. *)
Round1(f) == RoundHalfEven(10 * f[1], f[2])

(* The day the requests run on (date.today()), as a day number. *)
Today == 1200

(* UserProfile.get_current_experience_years, in tenths of a year. *)
get_current_experience_years(profile) ==
    IF ~IsNone(profile.experience_start_date)
    THEN LET days == Today - Val(profile.experience_start_date)
         IN  IF days <= 0 THEN 0 ELSE RoundHalfEven(days * 40, 1461)
    ELSE IF IsNone(profile.experience_years) THEN 0
         ELSE 10 * Val(profile.experience_years)

(* experience_mapping: level -> (min, max) years; None is float('inf'). *)
experience_mapping ==
    [entry |-> <<0, Some(2)>>, mid |-> <<2, Some(5)>>,
     senior |-> <<5, Some(10)>>, executive |-> <<10, None>>]

(* A matcher without the floor of 70 for the over-qualified. *)
experience_match_without_floor(profile, job) ==
    LET user_years == get_current_experience_years(profile) IN
    IF job.experience_level \notin DOMAIN experience_mapping THEN <<50, 1>>
    ELSE LET min_exp == 10 * experience_mapping[job.experience_level][1]
             max_opt == experience_mapping[job.experience_level][2]
         IN  IF min_exp <= user_years
                /\ (IsNone(max_opt) \/ user_years <= 10 * Val(max_opt))
             THEN <<100, 1>>
             ELSE IF user_years < min_exp
             THEN <<Max(0, 100 - (min_exp - user_years) * 2), 1>>
             ELSE <<Max(0, 200 - (user_years - 10 * Val(max_opt))), 2>>

calculate_experience_match(profile, job) ==
    LET user_years == get_current_experience_years(profile) IN
    IF job.experience_level \notin DOMAIN experience_mapping THEN <<50, 1>>
    ELSE LET min_exp == 10 * experience_mapping[job.experience_level][1]
             max_opt == experience_mapping[job.experience_level][2]
         IN  IF min_exp <= user_years
                /\ (IsNone(max_opt) \/ user_years <= 10 * Val(max_opt))
             THEN <<100, 1>>
             ELSE IF user_years < min_exp
             THEN <<Max(0, 100 - (min_exp - user_years) * 2), 1>>
             ELSE <<Max(140, 200 - (user_years - 10 * Val(max_opt))), 2>>

(* "not x" of an optional Decimal: NULL and 0 are both falsy. *)
Falsy(x) == IsNone(x) \/ Val(x) = 0

(* A matcher without the floor of 20 under an offer below the candidate's
   minimum. *)
salary_match_without_floor(profile, job) ==
    IF Falsy(profile.preferred_salary_min) \/ Falsy(job.salary_max)
    THEN <<75, 1>>
    ELSE LET user_min == 2 * Val(profile.preferred_salary_min)
             user_max == IF Falsy(profile.preferred_salary_max)
                         THEN 3 * Val(profile.preferred_salary_min)
                         ELSE 2 * Val(profile.preferred_salary_max)
             job_min == IF Falsy(job.salary_min) THEN 0
                        ELSE 2 * Val(job.salary_min)
             job_max == 2 * Val(job.salary_max)
             overlap_start == Max(user_min, job_min)
             overlap_end == Min(user_max, job_max)
             user_range == user_max - user_min
         IN  IF overlap_end >= overlap_start
             THEN IF user_range > 0
                  THEN <<Min(100 * user_range,
                             80 * user_range
                                 + 20 * (overlap_end - overlap_start)),
                         user_range>>
                  ELSE <<90, 1>>
             ELSE IF user_min > job_max
                  THEN IF job_max > 0
                       THEN <<80 * job_max - 100 * (user_min - job_max), job_max>>
                       ELSE <<100 * (user_min - job_max) - 80 * job_max,
                              0 - job_max>>
                  ELSE <<95, 1>>

(* A matcher for which every overlap of the two ranges is a full match. *)
salary_match_full_on_overlap(profile, job) ==
    IF Falsy(profile.preferred_salary_min) \/ Falsy(job.salary_max)
    THEN <<75, 1>>
    ELSE LET user_min == 2 * Val(profile.preferred_salary_min)
             user_max == IF Falsy(profile.preferred_salary_max)
                         THEN 3 * Val(profile.preferred_salary_min)
                         ELSE 2 * Val(profile.preferred_salary_max)
             job_min == IF Falsy(job.salary_min) THEN 0
                        ELSE 2 * Val(job.salary_min)
             job_max == 2 * Val(job.salary_max)
         IN  IF Min(user_max, job_max) >= Max(user_min, job_min)
             THEN <<100, 1>>
             ELSE IF user_min > job_max THEN <<20, 1>> ELSE <<95, 1>>

(* calculate_salary_match; the amounts are doubled so that user_min * 1.5
   stays an integer. *)
calculate_salary_match(profile, job) ==
    IF Falsy(profile.preferred_salary_min) \/ Falsy(job.salary_max)
    THEN <<75, 1>>
    ELSE LET user_min == 2 * Val(profile.preferred_salary_min)
             user_max == IF Falsy(profile.preferred_salary_max)
                         THEN 3 * Val(profile.preferred_salary_min)
                         ELSE 2 * Val(profile.preferred_salary_max)
             job_min == IF Falsy(job.salary_min) THEN 0
                        ELSE 2 * Val(job.salary_min)
             job_max == 2 * Val(job.salary_max)
             overlap_start == Max(user_min, job_min)
             overlap_end == Min(user_max, job_max)
             user_range == user_max - user_min
             overlap_size == overlap_end - overlap_start
         IN  IF overlap_end >= overlap_start
             THEN IF user_range > 0
                  THEN <<Min(100 * user_range,
                             80 * user_range + 20 * overlap_size), user_range>>
                  ELSE <<90, 1>>
             ELSE IF user_min > job_max
                  THEN (* max(20, 80 - gap) with gap = 100 (user_min -
                          job_max) / job_max; job_max may be negative *)
                       IF job_max > 0
                       THEN <<Max(20 * job_max,
                                  80 * job_max - 100 * (user_min - job_max)),
                              job_max>>
                       ELSE <<Max(20 * (0 - job_max),
                                  100 * (user_min - job_max) - 80 * job_max),
                              0 - job_max>>
                  ELSE <<95, 1>>

(* --------------------------- scoring: text ---------------------------- *)
(* A Python str is a sequence of one-character strings.                   *)
UpperLetters ==
    <<"A","B","C","D","E","F","G","H","I","J","K","L","M",
      "N","O","P","Q","R","S","T","U","V","W","X","Y","Z">>
LowerLetters ==
    <<"a","b","c","d","e","f","g","h","i","j","k","l","m",
      "n","o","p","q","r","s","t","u","v","w","x","y","z">>
Digits == {"0","1","2","3","4","5","6","7","8","9"}
Range(f) == {f[i] : i \in DOMAIN f}

(* A local name for a value, worked out once: Body(v). *)
Let(v, Body(_)) == CHOOSE r \in {Body(x) : x \in {v}} : TRUE

(* str.lower() *)
LowerChar(c) ==
    IF c \in Range(UpperLetters)
    THEN LowerLetters[CHOOSE i \in DOMAIN UpperLetters : UpperLetters[i] = c]
    ELSE c
lower(str) == [i \in 1..Len(str) |-> LowerChar(str[i])]

(* the regex classes \w and \s *)
IsWordChar(c) ==
    c \in Range(LowerLetters) \cup Range(UpperLetters) \cup Digits \cup {"_"}
IsSpace(c) == c \in {" ", "\t", "\n"}

(* str.strip() *)
strip(str) ==
    LET keep == {i \in 1..Len(str) : ~IsSpace(str[i])}
    IN  IF keep = {} THEN <<>>
        ELSE SubSeq(str, CHOOSE i \in keep : \A k \in keep : i <= k,
                         CHOOSE i \in keep : \A k \in keep : i >= k)

(* a in b, for two str *)
IsSubstr(a, b) ==
    \E i \in 0..(Len(b) - Len(a)) : SubSeq(b, i + 1, i + Len(a)) = a

EndsWith(str, suffix) ==
    /\ Len(str) >= Len(suffix)
    /\ SubSeq(str, Len(str) - Len(suffix) + 1, Len(str)) = suffix

(* str.split(): the maximal runs of non-space characters, in order. *)
RECURSIVE split(_)
split(str) ==
    IF str = <<>> THEN <<>>
    ELSE IF IsSpace(str[1]) THEN split(Tail(str))
    ELSE LET stops == {i \in 1..Len(str) : IsSpace(str[i])}
             n == IF stops = {} THEN Len(str)
                  ELSE (CHOOSE i \in stops : \A k \in stops : i <= k) - 1
         IN  <<SubSeq(str, 1, n)>> \o split(SubSeq(str, n + 1, Len(str)))

(* JobMatcher.normalize_text: lower and strip the text, then turn every
   character that is neither a word character nor a space into a space. *)
normalize_text(text) ==
    IF text = <<>> THEN <<>>
    ELSE Let(strip(lower(text)), LAMBDA t :
             [i \in 1..Len(t) |->
                 IF IsWordChar(t[i]) \/ IsSpace(t[i]) THEN t[i] ELSE " "])

(* JobMatcher.COMMON_SKILLS *)
COMMON_SKILLS ==
    {<<"p","y","t","h","o","n">>,
     <<"j","a","v","a">>,
     <<"j","a","v","a","s","c","r","i","p","t">>,
     <<"r","e","a","c","t">>,
     <<"d","j","a","n","g","o">>,
     <<"s","p","r","i","n","g">>,
     <<"n","o","d","e","j","s">>,
     <<"a","n","g","u","l","a","r">>,
     <<"v","u","e">>,
     <<"h","t","m","l">>,
     <<"c","s","s">>,
     <<"s","q","l">>,
     <<"m","y","s","q","l">>,
     <<"p","o","s","t","g","r","e","s","q","l">>,
     <<"m","o","n","g","o","d","b">>,
     <<"a","w","s">>,
     <<"d","o","c","k","e","r">>,
     <<"k","u","b","e","r","n","e","t","e","s">>,
     <<"g","i","t">>,
     <<"l","i","n","u","x">>,
     <<"m","a","c","h","i","n","e"," ","l","e","a","r","n","i","n","g">>,
     <<"a","i">>,
     <<"d","a","t","a"," ","s","c","i","e","n","c","e">>,
     <<"t","e","n","s","o","r","f","l","o","w">>,
     <<"p","y","t","o","r","c","h">>,
     <<"p","a","n","d","a","s">>,
     <<"n","u","m","p","y">>,
     <<"f","l","a","s","k">>,
     <<"e","x","p","r","e","s","s">>,
     <<"r","e","s","t"," ","a","p","i">>,
     <<"g","r","a","p","h","q","l">>,
     <<"m","i","c","r","o","s","e","r","v","i","c","e","s">>,
     <<"d","e","v","o","p","s">>,
     <<"c","i","/","c","d">>,
     <<"j","e","n","k","i","n","s">>,
     <<"t","e","r","r","a","f","o","r","m">>,
     <<"a","n","s","i","b","l","e">>,
     <<"r","e","d","i","s">>,
     <<"e","l","a","s","t","i","c","s","e","a","r","c","h">>,
     <<"k","a","f","k","a">>,
     <<"r","a","b","b","i","t","m","q">>,
     <<"c","e","l","e","r","y">>,
     <<"n","g","i","n","x">>,
     <<"a","p","a","c","h","e">>,
     <<"l","o","a","d"," ","b","a","l","a","n","c","i","n","g">>,
     <<"c","a","c","h","i","n","g">>}

(* tech_patterns, tried with re.match on one word: <<least number of word
   characters, suffix>>; the word is word characters, then the suffix. *)
tech_patterns ==
    {<<0, <<"j","s">>>>, <<0, <<"p","y">>>>, <<0, <<"s","q","l">>>>,
     <<1, <<"+","+">>>>}

MatchesPattern(pattern, word) ==
    /\ EndsWith(word, pattern[2])
    /\ Len(word) - Len(pattern[2]) >= pattern[1]
    /\ \A i \in 1..(Len(word) - Len(pattern[2])) : IsWordChar(word[i])

(* JobMatcher.extract_skills_from_text: list(set(found_skills)) as a set. *)
extract_skills_from_text(text) ==
    Let(normalize_text(text), LAMBDA normalized :
    Let(split(normalized), LAMBDA words :
        {found : found \in
            {skill \in COMMON_SKILLS : IsSubstr(skill, normalized)}
            \cup {words[i] : i \in {k \in DOMAIN words :
                  \E pattern \in tech_patterns :
                      MatchesPattern(pattern, words[k])}}}))

RECURSIVE SumOver(_, _)
SumOver(S, f) ==
    IF S = {} THEN 0
    ELSE Let(CHOOSE y \in S : TRUE, LAMBDA x :
         Let({y \in S : y # x}, LAMBDA rest : f[x] + SumOver(rest, f)))

(* JobMatcher.create_skill_vector: the user's weight of one skill, in
   tenths (skill_weights: exact 1.0, partial 0.7). *)
user_score(skill, user_skills) ==
    IF \E i \in DOMAIN user_skills : user_skills[i] = skill THEN 10
    ELSE IF \E i \in DOMAIN user_skills :
               IsSubstr(skill, user_skills[i]) \/ IsSubstr(user_skills[i], skill)
         THEN 7
         ELSE 0

(* create_skill_vector and cosine_similarity: <<dot, m1, m2>> with
   cos = dot / sqrt(m1 * m2); dot in tenths, m1 in hundredths. *)
create_skill_vector(user_skills, job_skills) ==
    Let({skill : skill \in Range(user_skills) \cup job_skills},
        LAMBDA all_skills :
    Let([k \in all_skills |-> user_score(k, user_skills)], LAMBDA u :
    Let([k \in all_skills |-> IF k \in job_skills THEN 1 ELSE 0], LAMBDA j :
        <<SumOver(all_skills, [k \in all_skills |-> u[k] * j[k]]),
          SumOver(all_skills, [k \in all_skills |-> u[k] * u[k]]),
          SumOver(all_skills, j)>>)))

(* A matcher that scores a neutral 50.0 when there is nothing to compare. *)
skills_match_neutral(profile, job) ==
    Let([i \in DOMAIN profile.skills |-> lower(profile.skills[i])],
        LAMBDA user_skills :
    Let(extract_skills_from_text(job.requirements \o <<" ">> \o job.description),
        LAMBDA job_requirements :
        IF Len(profile.skills) = 0 \/ job_requirements = {} THEN <<50, 1>>
        ELSE Let(create_skill_vector(user_skills, job_requirements), LAMBDA v :
                 IF v[2] = 0 \/ v[3] = 0 THEN <<0, 1>>
                 ELSE <<v[1], v[2] * v[3]>>)))

(* calculate_skills_match: <<d, m>> stands for min(100 * d / sqrt(m), 100);
   <<0, 1>> is 0.0.  By Cauchy-Schwarz d * d <= m, so the cap never acts. *)
calculate_skills_match(profile, job) ==
    Let([i \in DOMAIN profile.skills |-> lower(profile.skills[i])],
        LAMBDA user_skills :
    Let(extract_skills_from_text(job.requirements \o <<" ">> \o job.description),
        LAMBDA job_requirements :
        IF Len(profile.skills) = 0 \/ job_requirements = {} THEN <<0, 1>>
        ELSE Let(create_skill_vector(user_skills, job_requirements), LAMBDA v :
                 IF v[2] = 0 \/ v[3] = 0 THEN <<0, 1>>
                 ELSE <<v[1], v[2] * v[3]>>)))

(* A matcher whose location score looks at the table of jobs: nothing
   matches while the newest job is closed. *)
location_match_while_open(profile, job) ==
    IF ~job_active[NumEmployers] THEN <<20, 1>>
    ELSE IF job.is_remote
    THEN IF profile.remote_work_preference
              \in {Some("remote"), Some("hybrid"), Some("flexible")}
         THEN <<100, 1>> ELSE <<70, 1>>
    ELSE <<50, 1>>

(* A matcher that asks for the preferred places first: a remote job is
   scored by the remote preference only for a candidate who names none. *)
location_match_by_place(profile, job) ==
    IF Len(profile.preferred_locations) = 0
    THEN IF ~job.is_remote THEN <<50, 1>>
         ELSE IF profile.remote_work_preference
                     \in {Some("remote"), Some("hybrid"), Some("flexible")}
         THEN <<100, 1>> ELSE <<70, 1>>
    ELSE IF \E i \in DOMAIN profile.preferred_locations :
                IsSubstr(lower(profile.preferred_locations[i]), lower(job.location))
    THEN <<100, 1>>
    ELSE <<20, 1>>

calculate_location_match(profile, job) ==
    LET user_locations ==
            [i \in DOMAIN profile.preferred_locations |->
                lower(profile.preferred_locations[i])]
        job_location == lower(job.location)
    IN  IF job.is_remote
        THEN IF profile.remote_work_preference
                  \in {Some("remote"), Some("hybrid"), Some("flexible")}
             THEN <<100, 1>> ELSE <<70, 1>>
        ELSE IF Len(profile.preferred_locations) = 0 THEN <<50, 1>>
        ELSE IF \E i \in DOMAIN user_locations :
                    \/ IsSubstr(user_locations[i], job_location)
                    \/ IsSubstr(job_location, user_locations[i])
        THEN <<100, 1>>
        ELSE IF \E i \in DOMAIN user_locations :
                    \E part \in Range(split(user_locations[i])) :
                        Len(part) > 2 /\ part \in Range(split(job_location))
        THEN <<80, 1>>
        ELSE <<20, 1>>

(* --------------------- scoring: roots and rounding -------------------- *)
(* The largest x in lo..hi with x * x <= n, given lo * lo <= n. *)
RECURSIVE IsqrtIn(_, _, _)
IsqrtIn(n, lo, hi) ==
    IF lo >= hi THEN lo
    ELSE LET mid == (lo + hi + 1) \div 2
         IN  IF mid * mid <= n THEN IsqrtIn(n, mid, hi)
             ELSE IsqrtIn(n, lo, mid - 1)
Isqrt(n) == IsqrtIn(n, 0, 46340)

(* floor(x * f[1] * ... * f[k] / m), multiplying one factor at a time so
   that no intermediate value leaves 32 bits. *)
RECURSIVE MulDivFloor(_, _, _, _)
MulDivFloor(whole, rest, m, f) ==
    IF f = <<>> THEN whole
    ELSE MulDivFloor(whole * f[1] + (rest * f[1]) \div m,
                     (rest * f[1]) % m, m, Tail(f))

RECURSIVE Gcd(_, _)
Gcd(a, b) == IF b = 0 THEN a ELSE Gcd(b, a % b)

(* round(x, 1) in tenths, for x = 100 * d / sqrt(m) + p / (10 * q) points;
   the nearest integer to 1000 * d / sqrt(m) + p / q. *)
RoundRoot(d, m, p, q) ==
    Let(Isqrt(m), LAMBDA root :
    IF d = 0 THEN RoundHalfEven(p, q)
    ELSE IF root * root = m
    THEN RoundHalfEven(1000 * d * q + p * root, root * q)
    ELSE (* r is the largest integer with r - 1/2 - p/q <= 1000 d / sqrt(m) *)
         Let(Isqrt(MulDivFloor((d * d) \div m, (d * d) % m, m,
                               <<2000, 2000, q, q>>)), LAMBDA bound :
             (bound + q + 2 * p) \div (2 * q)))

(* round(skills_score, 1) in tenths *)
RoundSkills(f) == RoundRoot(f[1], f[2], 0, 1)

(* A matcher whose weights favour the skills and sum to 1.1. *)
weights_unbalanced ==
    [skills |-> 50, experience |-> 25, location |-> 20, salary |-> 15]

(* weights of calculate_overall_match, in hundredths. *)
weights ==
    [skills |-> 40, experience |-> 25, location |-> 20, salary |-> 15]

(* JobMatcher.calculate_overall_match: the five scores, each rounded to one
   decimal and kept in tenths.  The weights are applied to the unrounded
   sub-scores. *)
calculate_overall_match(profile, job) ==
    Let(calculate_skills_match(profile, job), LAMBDA skills_score :
    Let(calculate_experience_match(profile, job), LAMBDA experience_score :
    Let(calculate_location_match(profile, job), LAMBDA location_score :
    Let(calculate_salary_match(profile, job), LAMBDA salary_score :
    (* 10 * (we e + wl l + ws s) / 100, as one fraction num / den *)
    Let(weights.experience * experience_score[1]
                           * location_score[2] * salary_score[2]
        + weights.location * location_score[1]
                           * experience_score[2] * salary_score[2]
        + weights.salary * salary_score[1]
                         * experience_score[2] * location_score[2],
        LAMBDA num :
    Let(10 * experience_score[2] * location_score[2] * salary_score[2],
        LAMBDA den :
    Let(Gcd(num, den), LAMBDA g :
    (* 10 * (w / 100) * 100 d / sqrt(m) = 1000 * (w d / 100) / sqrt(m) *)
    Let(Gcd(weights.skills * skills_score[1], 100), LAMBDA h :
        [overall_score |->
             RoundRoot((weights.skills * skills_score[1]) \div h,
                       (100 \div h) * (100 \div h) * skills_score[2],
                       num \div g, den \div g),
         skills_score |-> RoundSkills(skills_score),
         experience_score |-> Round1(experience_score),
         location_score |-> Round1(location_score),
         salary_score |-> Round1(salary_score)]))))))))

(* ------------------------------- data --------------------------------- *)
(* The Job rows (all columns but is_active, which job_active holds). *)
JobChoices ==
    <<[requirements |-> <<"L","o","o","k","i","n","g"," ","f","o","r"," ","P","y","t","h","o","n"," ","a","n","d"," ","D","j","a","n","g","o"," ","d","e","v","e","l","o","p","e","r">>,
       description |-> <<>>, experience_level |-> "mid",
       location |-> <<"R","e","m","o","t","e">>, is_remote |-> TRUE,
       salary_min |-> Some(800), salary_max |-> Some(1200)],
      [requirements |-> <<"R","e","a","c","t",","," ","N","o","d","e","J","S">>,
       description |-> <<"F","r","o","n","t","e","n","d"," ","t","e","a","m">>, experience_level |-> "senior",
       location |-> <<"K","a","t","h","m","a","n","d","u",","," ","N","e","p","a","l">>, is_remote |-> FALSE,
       salary_min |-> None, salary_max |-> Some(1000)]>>
JobData(j) == JobChoices[((j - 1) % Len(JobChoices)) + 1]

(* The values a candidate's UserProfile row takes (ProfileView edits). *)
ProfileChoices ==
    <<[skills |-> <<<<"P","y","t","h","o","n">>, <<"d","j","a","n","g","o">>>>,
       experience_years |-> Some(3), experience_start_date |-> None,
       preferred_salary_min |-> Some(900), preferred_salary_max |-> None,
       preferred_locations |-> <<>>, remote_work_preference |-> Some("remote")],
      [skills |-> <<<<"r","e","a","c","t">>>>,
       experience_years |-> None, experience_start_date |-> Some(Today - 2630),
       preferred_salary_min |-> Some(2000), preferred_salary_max |-> Some(2000),
       preferred_locations |-> <<<<"K","a","t","h","m","a","n","d","u">>>>,
       remote_work_preference |-> None]>>

(* A profile as get_or_create makes it: every optional column empty. *)
EmptyProfile ==
    [skills |-> <<>>, experience_years |-> None, experience_start_date |-> None,
     preferred_salary_min |-> None, preferred_salary_max |-> None,
     preferred_locations |-> <<>>, remote_work_preference |-> None]

(* A profile with every input of the matcher filled in: five years since
   the start date (the stored years are older), Kathmandu, hybrid work. *)
FullProfile ==
    [skills |-> <<<<"r","e","a","c","t">>>>,
     experience_years |-> Some(2), experience_start_date |-> Some(Today - 1827),
     preferred_salary_min |-> Some(900), preferred_salary_max |-> Some(1000),
     preferred_locations |-> <<<<"K","a","t","h","m","a","n","d","u">>>>,
     remote_work_preference |-> Some("hybrid")]

(* The optional inputs of the matcher, and a profile with some left out. *)
OptionalInputs == {"skills", "experience", "locations", "salary", "remote"}
Without(profile, missing) ==
    [skills |-> IF "skills" \in missing THEN <<>> ELSE profile.skills,
     experience_years |->
         IF "experience" \in missing THEN None ELSE profile.experience_years,
     experience_start_date |->
         IF "experience" \in missing THEN None
         ELSE profile.experience_start_date,
     preferred_salary_min |->
         IF "salary" \in missing THEN None ELSE profile.preferred_salary_min,
     preferred_salary_max |->
         IF "salary" \in missing THEN None ELSE profile.preferred_salary_max,
     preferred_locations |->
         IF "locations" \in missing THEN <<>> ELSE profile.preferred_locations,
     remote_work_preference |->
         IF "remote" \in missing THEN None ELSE profile.remote_work_preference]
SparseProfiles == {Without(FullProfile, missing) : missing \in SUBSET OptionalInputs}

(* JobApplication.STATUS_CHOICES *)
STATUS_CHOICES ==
    {"applied", "reviewed", "maybe", "interview", "rejected", "accepted"}

(* The writable JobApplicationSerializer fields an applicant may post
   (fields = '__all__', read-only: applicant, job, applied_at); None is a
   field left out of the form. *)
EmptyForm ==
    [status |-> None, reviewed_by |-> None, reviewed_at |-> None,
     review_notes |-> None, salary_expectation |-> None, match_score |-> None]
FormChoices(u) ==
    {EmptyForm,
     [EmptyForm EXCEPT !.status = Some("accepted"), !.reviewed_by = Some(u),
                       !.review_notes = Some("self"),
                       !.salary_expectation = Some(1500),
                       !.match_score = Some(1000)],
     [EmptyForm EXCEPT !.status = Some("bogus")]}

(* What a reviewer posts as action and notes. *)
ReviewBodies ==
    {[application_id |-> Some(a), action |-> d[1], notes |-> d[2]] :
        a \in 1..MaxApps,
        d \in {<<Some("accepted"), None>>, <<Some("rejected"), Some("strong")>>,
               <<Some("maybe"), None>>}}
    \cup [application_id : {Some(1)},
          action : {None, Some("interview"), Some("reviewed"), Some("applied")},
          notes : {None}]
    \cup {[application_id |-> None, action |-> Some("accepted"), notes |-> None]}

(* The response sent last: the request's kind and the HTTP status. *)
Response(op, code) == [op |-> op, code |-> code]
NoResponse == Response("none", 0)

(* ------------------------------ storage ------------------------------- *)
(* apps is the JobApplication table: apps[id] is the row with that id.    *)
JobIds == 0..NumEmployers            \* 0 is the id of no job

(* A request is handed to the first idle worker. *)
IdleWorker(w) == pc[w] = "idle" /\ \A x \in Workers : pc[x] = "idle" => w <= x

(* The profiles at the start: the candidates have filled theirs in. *)
FirstProfiles ==
    [u \in Users |->
        IF u \in Candidates
        THEN ProfileChoices[((u - NumEmployers - 1) % Len(ProfileChoices)) + 1]
        ELSE EmptyProfile]

Init ==
    /\ job_active = [j \in Jobs |-> TRUE]
    /\ profiles = FirstProfiles
    /\ apps = <<>>
    /\ now = 1
    /\ pc = [w \in Workers |-> "idle"]
    /\ local = [w \in Workers |-> None]
    /\ resp = NoResponse

(* The handler of worker w returns: its objects are dropped. *)
Reply(w, op, code) ==
    /\ pc' = [pc EXCEPT ![w] = "idle"]
    /\ local' = [local EXCEPT ![w] = None]
    /\ resp' = Response(op, code)

(* The handler of worker w goes on to its next statement. *)
Goto(w, label, objects) ==
    /\ pc' = [pc EXCEPT ![w] = label]
    /\ local' = [local EXCEPT ![w] = objects]
    /\ UNCHANGED resp

(* Model.save() of a loaded JobApplication: UPDATE of every column. *)
SaveApplication(application) ==
    [apps EXCEPT ![application.id] = application.row]

(* A table without the constraint: no INSERT is refused. *)
NoUniqueTogether(job, applicant) == FALSE

(* unique_together = ('job', 'applicant'): the INSERT is refused when a row
   with the pair exists. *)
ViolatesUniqueTogether(job, applicant) ==
    \E a \in DOMAIN apps : apps[a].job = job /\ apps[a].applicant = applicant

(* JobViewSet.get_queryset *)
get_queryset(u) ==
    IF is_business(u) THEN {j \in Jobs : JobOwner(j) = u}
    ELSE {j \in Jobs : job_active[j]}

(* UserProfile.update_experience_years; int() drops the decimal. *)
update_experience_years(profile) ==
    IF ~IsNone(profile.experience_start_date)
    THEN [profile EXCEPT
             !.experience_years = Some(get_current_experience_years(profile) \div 10)]
    ELSE profile

(* x or y, for optional values *)
Or(x, y) == IF Falsy(x) THEN y ELSE x
OrElse(x, default) == IF IsNone(x) THEN default ELSE Val(x)

(* ', '.join(locations) *)
RECURSIVE join(_)
join(locations) ==
    IF locations = <<>> THEN <<>>
    ELSE IF Len(locations) = 1 THEN locations[1]
    ELSE locations[1] \o <<",", " ">> \o join(Tail(locations))

(* JobApplicationSerializer.is_valid: status is a choice field. *)
is_valid(form) == IsNone(form.status) \/ Val(form.status) \in STATUS_CHOICES

(* The row serializer.save inserts: the posted fields, the model
   defaults for the fields left out, and the keyword arguments on top. *)
NewApplication(form, applicant, job, user_profile) ==
    [job |-> job,
     applicant |-> applicant,
     status |-> OrElse(form.status, "applied"),
     experience_years_at_apply |->
         get_current_experience_years(user_profile) \div 10,
     skills_at_apply |-> user_profile.skills,
     salary_expectation |->
         Or(form.salary_expectation, user_profile.preferred_salary_max),
     location_preference |-> join(user_profile.preferred_locations),
     remote_preference |-> OrElse(user_profile.remote_work_preference, ""),
     match_score |-> form.match_score,
     skills_match_score |-> None,
     experience_match_score |-> None,
     location_match_score |-> None,
     salary_match_score |-> None,
     reviewed_by |-> form.reviewed_by,
     reviewed_at |-> form.reviewed_at,
     review_notes |-> OrElse(form.review_notes, "")]

(* calculate_overall_match is a pure function of the profile and the job
   row: its values for the rows the tables can hold, computed once. *)
StoredProfiles ==
    {EmptyProfile} \cup Range(ProfileChoices)
    \cup {update_experience_years(ProfileChoices[k]) : k \in DOMAIN ProfileChoices}
    \cup SparseProfiles
    \cup {update_experience_years(profile) : profile \in SparseProfiles}
overall_match ==
    [profile \in StoredProfiles, k \in DOMAIN JobChoices |->
        calculate_overall_match(profile, JobChoices[k])]

(* A matcher that fills in the scores that are missing and keeps the ones
   already stored. *)
fill_missing_scores(row, user_profile) ==
    LET scores == overall_match[user_profile,
                                ((row.job - 1) % Len(JobChoices)) + 1]
        Keep(old, new) == IF IsNone(old) THEN Some(new) ELSE old
    IN  [row EXCEPT !.match_score = Keep(@, scores.overall_score),
                    !.skills_match_score = Keep(@, scores.skills_score),
                    !.experience_match_score = Keep(@, scores.experience_score),
                    !.location_match_score = Keep(@, scores.location_score),
                    !.salary_match_score = Keep(@, scores.salary_score)]

(* A matcher that brings the application's skill list up to date with the
   profile it scores. *)
rescore_and_resnapshot(row, user_profile) ==
    LET scores == overall_match[user_profile,
                                ((row.job - 1) % Len(JobChoices)) + 1]
    IN  [row EXCEPT !.match_score = Some(scores.overall_score),
                    !.skills_match_score = Some(scores.skills_score),
                    !.experience_match_score = Some(scores.experience_score),
                    !.location_match_score = Some(scores.location_score),
                    !.salary_match_score = Some(scores.salary_score),
                    !.skills_at_apply = user_profile.skills]

(* A matcher that gives up on a profile without skills: the row is saved
   as it was. *)
scores_only_with_skills(row, user_profile) ==
    LET scores == overall_match[user_profile,
                                ((row.job - 1) % Len(JobChoices)) + 1]
    IN  IF Len(user_profile.skills) = 0 THEN row
        ELSE [row EXCEPT !.match_score = Some(scores.overall_score),
                         !.skills_match_score = Some(scores.skills_score),
                         !.experience_match_score = Some(scores.experience_score),
                         !.location_match_score = Some(scores.location_score),
                         !.salary_match_score = Some(scores.salary_score)]

(* JobMatcher.update_application_scores: the row it saves. *)
update_application_scores(row, user_profile) ==
    LET scores == overall_match[user_profile,
                                ((row.job - 1) % Len(JobChoices)) + 1]
    IN  [row EXCEPT !.match_score = Some(scores.overall_score),
                    !.skills_match_score = Some(scores.skills_score),
                    !.experience_match_score = Some(scores.experience_score),
                    !.location_match_score = Some(scores.location_score),
                    !.salary_match_score = Some(scores.salary_score)]

(* ------------------------- SubmitApplication -------------------------- *)
(* JobApplicationView (POST jobs/apply/): the form is validated, then
   perform_create looks the job up and loads and refreshes the profile. *)
Submit_begin(w, u, j, form) ==
    /\ IdleWorker(w)
    /\ Len(apps) + Cardinality({x \in Workers : pc[x] = "insert"}) < MaxApps
    /\ IF ~is_valid(form)
       THEN Reply(w, "apply", 400) /\ UNCHANGED profiles
       ELSE IF j \notin Jobs
       THEN Reply(w, "apply", 404) /\ UNCHANGED profiles
       ELSE LET user_profile == update_experience_years(profiles[u])
            IN  /\ profiles' = [profiles EXCEPT ![u] = user_profile]
                /\ Goto(w, "insert", [user |-> u, job |-> j, form |-> form,
                                      user_profile |-> user_profile])
    /\ UNCHANGED <<job_active, apps, now>>

(* serializer.save(...): the INSERT, refused by the unique constraint with
   an IntegrityError that nothing catches (a 500 response). *)
Submit_insert(w) ==
    /\ pc[w] = "insert"
    /\ LET o == local[w]
           row == NewApplication(o.form, o.user, o.job, o.user_profile)
       IN  IF ViolatesUniqueTogether(o.job, o.user)
           THEN Reply(w, "apply", 500) /\ UNCHANGED apps
           ELSE /\ apps' = Append(apps, row)
                /\ Goto(w, "annotate",
                        [application |-> [id |-> Len(apps) + 1, row |-> row],
                         user_profile |-> o.user_profile])
    /\ UNCHANGED <<job_active, profiles, now>>

(* job_matcher.update_application_scores(application): scores from the
   profile object loaded above, then application.save(). *)
Submit_annotate(w) ==
    /\ pc[w] = "annotate"
    /\ LET o == local[w]
       IN  apps' = SaveApplication(
               [o.application EXCEPT
                   !.row = update_application_scores(@, o.user_profile)])
    /\ Reply(w, "apply", 201)
    /\ UNCHANGED <<job_active, profiles, now>>

(* ------------------------- TriageApplication -------------------------- *)
(* A handler without the ownership test. *)
AnyUser(u, j) == TRUE

(* job.company.owner != request.user *)
owns_company(u, j) == JobOwner(j) = u

(* A handler that takes every status of STATUS_CHOICES as the action. *)
IsStatusChoice(action) == ~IsNone(action) /\ Val(action) \in STATUS_CHOICES

(* action in ['accepted', 'rejected', 'maybe'] *)
IsReviewAction(action) ==
    action \in {Some("accepted"), Some("rejected"), Some("maybe")}

(* The tests of JobViewSet.review_application, in their order: the status
   of the error response, or 200 when the handler goes on to the write. *)
review_application(u, j, application_id, action) ==
    IF j \notin get_queryset(u) THEN 404
    ELSE IF ~owns_company(u, j) THEN 403
    ELSE IF IsNone(application_id) \/ ~IsReviewAction(action) THEN 400
    ELSE IF ~(/\ Val(application_id) \in DOMAIN apps
              /\ apps[Val(application_id)].job = j
              /\ apps[Val(application_id)].status = "applied")
    THEN 404
    ELSE 200

(* JobViewSet.review_application up to the SELECT of the application. *)
Triage_lookup(w, u, j, application_id, action, notes) ==
    /\ IdleWorker(w)
    /\ now + Cardinality({x \in Workers : pc[x] = "save"}) < MaxTime
    /\ IF review_application(u, j, application_id, action) # 200
       THEN Reply(w, "review", review_application(u, j, application_id, action))
       ELSE Goto(w, "save",
                 [user |-> u, action |-> Val(action), notes |-> OrElse(notes, ""),
                  application |-> [id |-> Val(application_id),
                                   row |-> apps[Val(application_id)]]])
    /\ UNCHANGED <<job_active, profiles, apps, now>>

(* A handler that forgets the review_notes assignment. *)
Triage_save_NoNotes(w) ==
    /\ pc[w] = "save"
    /\ LET o == local[w]
       IN  apps' = SaveApplication(
               [o.application EXCEPT !.row.status = o.action,
                                     !.row.reviewed_by = Some(o.user),
                                     !.row.reviewed_at = Some(now)])
    /\ now' = now + 1
    /\ Reply(w, "review", 200)
    /\ UNCHANGED <<job_active, profiles>>

(* The four assignments, timezone.now() and application.save(). *)
Triage_save(w) ==
    /\ pc[w] = "save"
    /\ LET o == local[w]
       IN  apps' = SaveApplication(
               [o.application EXCEPT !.row.status = o.action,
                                     !.row.reviewed_by = Some(o.user),
                                     !.row.reviewed_at = Some(now),
                                     !.row.review_notes = o.notes])
    /\ now' = now + 1
    /\ Reply(w, "review", 200)
    /\ UNCHANGED <<job_active, profiles>>

(* ------------------------------ annotate ------------------------------ *)
(* A caller loads an application and hands it to update_application_scores,
   which reads the applicant's profile and saves the application. *)
Annotate_load(w, a) ==
    /\ IdleWorker(w)
    /\ a \in DOMAIN apps
    /\ Goto(w, "rescore", [application |-> [id |-> a, row |-> apps[a]]])
    /\ UNCHANGED <<job_active, profiles, apps, now>>

Annotate_save(w) ==
    /\ pc[w] = "rescore"
    /\ LET o == local[w]
       IN  apps' = SaveApplication(
               [o.application EXCEPT
                   !.row = update_application_scores(@, profiles[@.applicant])])
    /\ Reply(w, "annotate", 200)
    /\ UNCHANGED <<job_active, profiles, now>>

(* --------------------------- other requests --------------------------- *)
(* JobViewSet update (PATCH jobs/<id>/): is_active is set. *)
UpdateJob(u, j, active) ==
    /\ j \in get_queryset(u)
    /\ job_active[j] # active
    /\ job_active' = [job_active EXCEPT ![j] = active]
    /\ UNCHANGED <<profiles, apps, now, pc, local, resp>>

(* ProfileView (PUT profile/): the user's own profile takes the posted
   values. *)
UpdateProfile(u, k) ==
    /\ profiles[u] # ProfileChoices[k]
    /\ profiles' = [profiles EXCEPT ![u] = ProfileChoices[k]]
    /\ UNCHANGED <<job_active, apps, now, pc, local, resp>>

(* ---------------------------- read requests --------------------------- *)
(* The response of a read request: the request it answers (the user and
   the argument), the HTTP status and the list sent back. *)
ReadResponse(op, code, user, arg, body) ==
    [op |-> op, code |-> code, user |-> user, arg |-> arg, body |-> body]

(* The orders in which a query without ORDER BY may deliver the rows S. *)
Orders(S) ==
    {seq \in [1..Cardinality(S) -> S] :
        \A i, k \in 1..Cardinality(S) : seq[i] = seq[k] => i = k}

(* A listing that forgets the ORDER BY. *)
unordered(ids) == Orders(ids)

(* order_by('-match_score'): the rows by falling match_score; rows of equal
   score come in any order, and the rows without a score (NULL) come all
   first or all last, as the database has it. *)
order_by_match_score(ids) ==
    {seq \in Orders(ids) :
        /\ \A i, k \in DOMAIN seq :
               (/\ i < k
                /\ ~IsNone(apps[seq[i]].match_score)
                /\ ~IsNone(apps[seq[k]].match_score))
                   => Val(apps[seq[i]].match_score) >= Val(apps[seq[k]].match_score)
        /\ \/ \A i, k \in DOMAIN seq :
                  (i < k /\ IsNone(apps[seq[i]].match_score))
                      => IsNone(apps[seq[k]].match_score)
           \/ \A i, k \in DOMAIN seq :
                  (i < k /\ IsNone(apps[seq[k]].match_score))
                      => IsNone(apps[seq[i]].match_score)}

(* One entry of applications_data. *)
app_data(a) ==
    [id |-> a,
     applicant |-> [id |-> apps[a].applicant,
                    skills |-> profiles[apps[a].applicant].skills,
                    experience_years |->
                        get_current_experience_years(profiles[apps[a].applicant])],
     experience_years_at_apply |-> apps[a].experience_years_at_apply,
     skills_at_apply |-> apps[a].skills_at_apply,
     salary_expectation |-> apps[a].salary_expectation,
     location_preference |-> apps[a].location_preference,
     remote_preference |-> apps[a].remote_preference,
     match_score |-> apps[a].match_score,
     skills_match_score |-> apps[a].skills_match_score,
     experience_match_score |-> apps[a].experience_match_score,
     location_match_score |-> apps[a].location_match_score,
     salary_match_score |-> apps[a].salary_match_score]

(* JobViewSet.applications_to_review (GET jobs/<id>/applications_to_review/):
   one SELECT. *)
applications_to_review(w, u, j) ==
    /\ IdleWorker(w)
    /\ IF j \notin get_queryset(u)
       THEN resp' = ReadResponse("applications", 404, u, j, <<>>)
       ELSE IF ~owns_company(u, j)
       THEN resp' = ReadResponse("applications", 403, u, j, <<>>)
       ELSE \E applications \in order_by_match_score(
                    {a \in DOMAIN apps :
                        apps[a].job = j /\ apps[a].status = "applied"}) :
                resp' = ReadResponse("applications", 200, u, j,
                            [i \in DOMAIN applications |->
                                app_data(applications[i])])
    /\ UNCHANGED <<job_active, profiles, apps, now, pc, local>>

(* int(text) of a query parameter: None stands for the ValueError. *)
DigitValue(c) == CHOOSE d \in 0..9 : <<"0","1","2","3","4","5","6","7","8","9">>[d + 1] = c
RECURSIVE ParseDigits(_)
ParseDigits(str) ==
    IF str = <<>> THEN 0
    ELSE 10 * ParseDigits(SubSeq(str, 1, Len(str) - 1)) + DigitValue(str[Len(str)])
int(text) ==
    LET str == strip(text)
        signed == str # <<>> /\ str[1] \in {"-", "+"}
        digits == IF signed THEN Tail(str) ELSE str
    IN  IF digits = <<>> \/ \E i \in DOMAIN digits : digits[i] \notin Digits
        THEN None
        ELSE IF signed /\ str[1] = "-" THEN Some(0 - ParseDigits(digits))
        ELSE Some(ParseDigits(digits))

(* The limit query parameters sent; None is a request without one. *)
LimitChoices ==
    {None, Some(<<"0">>), Some(<<"1">>), Some(<<"2">>), Some(<<"-","1">>),
     Some(<<"a","l","l">>)}

(* Job.objects.filter(is_active=True) *)
active_jobs == {j \in Jobs : job_active[j]}

(* A query that excludes nothing. *)
no_job_ids(u) == {}

(* The job ids of the user's applications. *)
applied_job_ids(u) ==
    {apps[a].job : a \in {x \in DOMAIN apps : apps[x].applicant = u}}

(* A sort that is not stable: an entry goes in front of the entries of
   equal score that the query delivered before it. *)
RECURSIVE sort_unstable(_)
sort_unstable(recommendations) ==
    IF recommendations = <<>> THEN <<>>
    ELSE LET n == Len(recommendations)
             last == recommendations[n]
             front == sort_unstable(SubSeq(recommendations, 1, n - 1))
             ahead == Cardinality({i \in DOMAIN front :
                                      front[i].match_score > last.match_score})
         IN  SubSeq(front, 1, ahead) \o <<last>>
             \o SubSeq(front, ahead + 1, Len(front))

(* A matcher that leaves the list in the order of the query. *)
sort_skipped(recommendations) == recommendations

(* recommendations.sort(key=match_score, reverse=True): a stable sort, the
   entries of equal score keep their order. *)
RECURSIVE sort(_)
sort(recommendations) ==
    IF recommendations = <<>> THEN <<>>
    ELSE LET n == Len(recommendations)
             last == recommendations[n]
             front == sort(SubSeq(recommendations, 1, n - 1))
             ahead == Cardinality({i \in DOMAIN front :
                                      front[i].match_score >= last.match_score})
         IN  SubSeq(front, 1, ahead) \o <<last>>
             \o SubSeq(front, ahead + 1, Len(front))

(* recommendations[:limit], with Python's reading of a negative limit. *)
Slice(list, limit) ==
    IF limit >= 0 THEN SubSeq(list, 1, Min(limit, Len(list)))
    ELSE SubSeq(list, 1, Max(0, Len(list) + limit))

(* JobMatcher.get_job_recommendations for the profile of user u, the query
   delivering the jobs in the order jobs. *)
get_job_recommendations(u, limit, jobs) ==
    Slice(sort([i \in DOMAIN jobs |->
                   LET match_scores ==
                           overall_match[profiles[u],
                                         ((jobs[i] - 1) % Len(JobChoices)) + 1]
                   IN  [job |-> jobs[i],
                        match_score |-> match_scores.overall_score,
                        skills_match |-> match_scores.skills_score,
                        experience_match |-> match_scores.experience_score,
                        location_match |-> match_scores.location_score,
                        salary_match |-> match_scores.salary_score]]),
          limit)

(* JobViewSet.recommendations (GET jobs/recommendations/?limit=...): the
   ValueError of int() is not caught (a 500 response). *)
recommendations(w, u, query) ==
    /\ IdleWorker(w)
    /\ LET limit == IF IsNone(query) THEN Some(10) ELSE int(Val(query))
       IN  IF IsNone(limit)
           THEN resp' = ReadResponse("recommendations", 500, u, query, <<>>)
           ELSE \E jobs \in Orders(active_jobs \ applied_job_ids(u)) :
                    resp' = ReadResponse("recommendations", 200, u, query,
                                get_job_recommendations(u, Val(limit), jobs))
    /\ UNCHANGED <<job_active, profiles, apps, now, pc, local>>

(* JobViewSet.application_prefill (GET jobs/application_prefill/?job_id=...):
   the job is looked up, the profile's experience_years is refreshed and
   saved, and the profile is scored against the job. *)
application_prefill(w, u, job_id) ==
    /\ IdleWorker(w)
    /\ IF IsNone(job_id)
       THEN /\ resp' = ReadResponse("prefill", 400, u, job_id, None)
            /\ UNCHANGED profiles
       ELSE IF Val(job_id) \notin active_jobs
       THEN /\ resp' = ReadResponse("prefill", 404, u, job_id, None)
            /\ UNCHANGED profiles
       ELSE LET user_profile == update_experience_years(profiles[u])
            IN  /\ profiles' = [profiles EXCEPT ![u] = user_profile]
                /\ resp' = ReadResponse("prefill", 200, u, job_id,
                       [job_id |-> Val(job_id),
                        experience_years |->
                            get_current_experience_years(user_profile),
                        skills |-> user_profile.skills,
                        preferred_salary_min |-> user_profile.preferred_salary_min,
                        preferred_salary_max |-> user_profile.preferred_salary_max,
                        location_preferences |-> user_profile.preferred_locations,
                        remote_preference |->
                            OrElse(user_profile.remote_work_preference, "flexible"),
                        match_scores |->
                            overall_match[user_profile,
                                          ((Val(job_id) - 1) % Len(JobChoices)) + 1]])
    /\ UNCHANGED <<job_active, apps, now, pc, local>>

Next ==
    \/ \E w \in Workers, u \in Candidates, j \in JobIds :
           \E form \in FormChoices(u) : Submit_begin(w, u, j, form)
    \/ \E w \in Workers : Submit_insert(w)
    \/ \E w \in Workers : Submit_annotate(w)
    \/ \E w \in Workers, u \in Users, j \in JobIds :
           \E body \in ReviewBodies :
               Triage_lookup(w, u, j, body.application_id, body.action, body.notes)
    \/ \E w \in Workers : Triage_save(w)
    \/ \E u \in Users, active \in BOOLEAN : UpdateJob(u, NumEmployers, active)

Spec == Init /\ [][Next]_vars

(* Applications, the owners' decisions and the owners' review listing:
   plain application forms, one decision. *)
NextReview ==
    \/ \E w \in Workers, u \in Candidates, j \in Jobs :
           Submit_begin(w, u, j, EmptyForm)
    \/ \E w \in Workers : Submit_insert(w)
    \/ \E w \in Workers : Submit_annotate(w)
    \/ \E w \in Workers, j \in Jobs, a \in 1..MaxApps :
           Triage_lookup(w, JobOwner(j), j, Some(a), Some("accepted"), None)
    \/ \E w \in Workers : Triage_save(w)
    \/ \E u \in Users, active \in BOOLEAN : UpdateJob(u, NumEmployers, active)
    \/ \E w \in Workers, u \in Users, j \in JobIds :
           applications_to_review(w, u, j)

SpecReview == Init /\ [][NextReview]_vars

(* Applications, jobs closed and opened again, and the candidates'
   recommendations. *)
NextRecommend ==
    \/ \E w \in Workers, u \in Candidates, j \in Jobs :
           Submit_begin(w, u, j, EmptyForm)
    \/ \E w \in Workers : Submit_insert(w)
    \/ \E w \in Workers : Submit_annotate(w)
    \/ \E u \in Users, active \in BOOLEAN : UpdateJob(u, NumEmployers, active)
    \/ \E w \in Workers, u \in Candidates, query \in LimitChoices :
           recommendations(w, u, query)

SpecRecommend == Init /\ [][NextRecommend]_vars

(* One candidate who applies, edits the profile and has the applications
   scored again, while the owner of job 1 lists and decides. *)
Editor == NumEmployers + 1
NextEdit ==
    \/ \E w \in Workers, j \in Jobs : Submit_begin(w, Editor, j, EmptyForm)
    \/ \E w \in Workers : Submit_insert(w)
    \/ \E w \in Workers : Submit_annotate(w)
    \/ \E w \in Workers, a \in 1..MaxApps :
           Triage_lookup(w, JobOwner(1), 1, Some(a), Some("accepted"), None)
    \/ \E w \in Workers : Triage_save(w)
    \/ \E k \in DOMAIN ProfileChoices : UpdateProfile(Editor, k)
    \/ \E w \in Workers, a \in 1..MaxApps : Annotate_load(w, a)
    \/ \E w \in Workers : Annotate_save(w)
    \/ \E w \in Workers : applications_to_review(w, JobOwner(1), 1)

SpecEdit == Init /\ [][NextEdit]_vars

(* ------------------------------ scoring ------------------------------- *)
(* The rows calculate_overall_match is tried on: profiles and jobs of every
   experience and level, with salaries left out, positive and negative. *)
ExperienceChoices ==
    {<<None, None>>, <<None, Some(Today - 548)>>, <<Some(2), None>>,
     <<Some(5), None>>, <<None, Some(Today - 2630)>>, <<Some(10), None>>,
     <<Some(12), None>>, <<Some(20), None>>}
PreferredSalaryChoices ==
    {<<None, None>>, <<Some(900), Some(1000)>>, <<Some(1000), None>>,
     <<Some(0 - 1000), None>>}
(* The stored profiles as they are, the profile nobody filled in, every
   remote_work_preference next to a preferred location, and salary columns
   holding 0. *)
REMOTE_CHOICES == {"on_site", "remote", "hybrid", "flexible"}
MoreProfiles ==
    {ProfileChoices[1], ProfileChoices[2], EmptyProfile}
        \cup {[ProfileChoices[2] EXCEPT !.remote_work_preference = Some(c)] :
                  c \in REMOTE_CHOICES}
        \cup {[ProfileChoices[1] EXCEPT !.preferred_salary_min = s[1],
                                        !.preferred_salary_max = s[2]] :
                  s \in {<<Some(0), Some(1000)>>, <<Some(1000), Some(0)>>}}
ScoreProfiles ==
    {[ProfileChoices[1] EXCEPT !.experience_years = x[1],
                               !.experience_start_date = x[2],
                               !.preferred_salary_min = s[1],
                               !.preferred_salary_max = s[2]] :
        x \in ExperienceChoices, s \in PreferredSalaryChoices}
        \cup MoreProfiles
LevelChoices == {"entry", "mid", "senior", "executive", "lead"}
SalaryChoices ==
    {<<Some(800), Some(1200)>>, <<None, None>>, <<None, Some(0 - 500)>>,
     <<None, Some(0 - 2000)>>}
(* The on-site job, the same job offered as remote, a job whose text names
   no skill, and a job whose salary_max is 0. *)
MoreJobs ==
    {JobChoices[2],
     [JobChoices[2] EXCEPT !.is_remote = TRUE],
     [JobChoices[1] EXCEPT !.requirements = <<"H","a","r","d"," ","w","o","r","k","e","r">>],
     [JobChoices[1] EXCEPT !.salary_min = None, !.salary_max = Some(0)]}
ScoreJobs ==
    {[JobChoices[1] EXCEPT !.experience_level = level,
                           !.salary_min = s[1], !.salary_max = s[2]] :
        level \in LevelChoices, s \in SalaryChoices}
        \cup MoreJobs

(* Every worker holds a profile and a job and is about to score them. *)
InitScore ==
    /\ job_active = [j \in Jobs |-> TRUE]
    /\ profiles = FirstProfiles
    /\ apps = <<>>
    /\ now = 1
    /\ pc = [w \in Workers |-> "score"]
    /\ \E user_profile \in ScoreProfiles, job \in ScoreJobs :
           local = [w \in Workers |->
                       [user_profile |-> user_profile, job |-> job]]
    /\ resp = NoResponse

(* A call of job_matcher.calculate_overall_match(user_profile, job). *)
Score(w) ==
    /\ pc[w] = "score"
    /\ pc' = [pc EXCEPT ![w] = "idle"]
    /\ local' = [local EXCEPT ![w] = None]
    /\ resp' = [op |-> "score", code |-> 200,
                user_profile |-> local[w].user_profile, job |-> local[w].job,
                match_scores |-> calculate_overall_match(local[w].user_profile,
                                                         local[w].job)]
    /\ UNCHANGED <<job_active, profiles, apps, now>>

NextScore ==
    \/ \E w \in Workers : Score(w)
    \/ \E u \in Users, active \in BOOLEAN : UpdateJob(u, NumEmployers, active)

SpecScore == InitScore /\ [][NextScore]_vars

(* ---------------------------- sparse profiles -------------------------- *)
(* The candidate's profile has any of the matcher's inputs left out; the
   candidate asks for the prefill and the recommendations and applies,
   while the owner of job 1 lists the applications and the newest job is
   closed and opened. *)
InitSparse ==
    /\ job_active = [j \in Jobs |-> TRUE]
    /\ \E profile \in SparseProfiles :
           profiles = [FirstProfiles EXCEPT ![Editor] = profile]
    /\ apps = <<>>
    /\ now = 1
    /\ pc = [w \in Workers |-> "idle"]
    /\ local = [w \in Workers |-> None]
    /\ resp = NoResponse

NextSparse ==
    \/ \E w \in Workers, j \in Jobs : Submit_begin(w, Editor, j, EmptyForm)
    \/ \E w \in Workers : Submit_insert(w)
    \/ \E w \in Workers : Submit_annotate(w)
    \/ \E w \in Workers, query \in {None, Some(<<"1">>)} :
           recommendations(w, Editor, query)
    \/ \E w \in Workers, job_id \in {None} \cup {Some(j) : j \in JobIds} :
           application_prefill(w, Editor, job_id)
    \/ \E w \in Workers : applications_to_review(w, JobOwner(1), 1)
    \/ \E u \in Users, active \in BOOLEAN : UpdateJob(u, NumEmployers, active)

SpecSparse == InitSparse /\ [][NextSparse]_vars

(* ============================== claims ================================ *)
(* The review state of a row. *)
ReviewState(row) ==
    <<row.status, row.reviewed_by, row.reviewed_at, row.review_notes>>

(* The step that ends the request worker w is serving at label. *)
Finishes(w, label) == pc[w] = label /\ pc'[w] = "idle"

(* What every Triage_lookup step of worker w does, whatever the request
   (tested before the requests are tried one by one). *)
LooksLikeLookup(w) ==
    /\ IdleWorker(w)
    /\ pc'[w] = "save" \/ (pc'[w] = "idle" /\ resp'.op = "review")

(* The request of worker w is refused and no application changes. *)
Refused(w) ==
    /\ pc'[w] = "idle"
    /\ resp'.op = "review" /\ resp'.code \in {400, 403, 404}
    /\ apps' = apps

(* The three decisions of a triage. *)
Decisions == {"accepted", "rejected", "maybe"}

(* The statuses that report a conflict: a client error that is none of
   validation (400), authorization (403) and not-found (404). *)
ConflictCodes == (400..499) \ {400, 403, 404}

(* C1: in every reachable state there is at most one application per
   (job, candidate) pair, however the submissions interleave: two
   concurrent submissions for one pair never both insert a row. *)
C1_UniquePerJobAndCandidate ==
    \A a, b \in DOMAIN apps :
        (apps[a].job = apps[b].job /\ apps[a].applicant = apps[b].applicant)
            => a = b

(* A submission was refused at the INSERT while the submission that won
   the pair is still in its handler. *)
C1_ConcurrentDuplicateRefused ==
    /\ resp = Response("apply", 500)
    /\ \E w \in Workers :
           /\ pc[w] = "annotate"
           /\ Cardinality({a \in DOMAIN apps :
                  /\ apps[a].job = local[w].application.row.job
                  /\ apps[a].applicant = local[w].application.row.applicant}) = 1

(* C2: of two concurrent triages of one application in state applied, only
   one performs the transition: the request that comes to its write when
   the stored state is no longer applied is reported a conflict and writes
   nothing. *)
C2_LoserWritesNothing ==
    [][\A w \in Workers :
          (Finishes(w, "save")
           /\ apps[local[w].application.id].status # "applied")
              => (apps' = apps /\ resp'.code \in ConflictCodes)]_vars

(* C3: once an application's state is no longer applied, its state,
   reviewed_by, reviewed_at and review_notes never change again. *)
C3_ReviewStateChangesOnce ==
    [][\A a \in DOMAIN apps :
          apps[a].status # "applied"
              => ReviewState(apps'[a]) = ReviewState(apps[a])]_vars

(* C4: a triage by the job's owner, with a valid decision, of an application
   of the job whose state is not applied fails with a conflict error, an
   outcome distinct from not-found and validation errors, and leaves the
   applications as they are. *)
C4_HandledIsConflict ==
    [][\A w \in Workers, u \in Users, j \in Jobs, body \in ReviewBodies :
          (/\ Triage_lookup(w, u, j, body.application_id, body.action, body.notes)
           /\ JobOwner(j) = u
           /\ ~IsNone(body.action) /\ Val(body.action) \in Decisions
           /\ ~IsNone(body.application_id)
           /\ Val(body.application_id) \in DOMAIN apps
           /\ apps[Val(body.application_id)].job = j
           /\ apps[Val(body.application_id)].status # "applied")
              => (/\ pc'[w] = "idle"
                  /\ resp'.op = "review" /\ resp'.code \in ConflictCodes
                  /\ apps' = apps)]_vars

(* C5: a second submission for a (candidate, job) pair that has an
   application fails with a conflict error, inserts no row and leaves the
   existing row unchanged. *)
C5_DuplicateIsConflict ==
    [][\A w \in Workers :
          (/\ pc[w] = "insert" /\ pc'[w] # "insert"
           /\ ViolatesUniqueTogether(local[w].job, local[w].user))
              => (/\ pc'[w] = "idle"
                  /\ resp'.op = "apply" /\ resp'.code \in ConflictCodes
                  /\ apps' = apps)]_vars

(* C6: a triage changes an application only when the requester owns the
   company of the job named in the request and the application belongs to
   that job; a request by any other user, or naming an application of another
   job, is rejected with an error and leaves every application unchanged:
   a lookup that is not a refusal is the lookup of such a request, and the
   write is by the owner on an application of the job. *)
C6_OnlyOwnerTriages ==
    [][/\ \A w \in Workers :
             (LooksLikeLookup(w) /\ ~Refused(w))
                 => \A u \in Users, j \in JobIds, body \in ReviewBodies :
                        Triage_lookup(w, u, j, body.application_id, body.action,
                                      body.notes)
                            => (/\ JobOwner(j) = u
                                /\ ~IsNone(body.application_id)
                                /\ Val(body.application_id) \in DOMAIN apps
                                /\ apps[Val(body.application_id)].job = j)
       /\ \A w \in Workers :
             Finishes(w, "save")
                 => LET o == local[w]
                    IN  /\ o.user = JobOwner(o.application.row.job)
                        /\ apps[o.application.id].job = o.application.row.job
                        /\ \A a \in DOMAIN apps :
                               a # o.application.id => apps'[a] = apps[a]]_vars

(* A user who does not own the job's company was refused while an
   application waits for its triage, and no application has a reviewer. *)
C6_StrangerRefused ==
    /\ resp = Response("review", 403)
    /\ \A w \in Workers : pc[w] = "idle"
    /\ \E a \in DOMAIN apps : apps[a].status = "applied"
    /\ \A a \in DOMAIN apps : IsNone(apps[a].reviewed_by)

(* C7: every application SubmitApplication creates starts in state applied
   with no reviewer, no review timestamp and empty review notes, whatever
   fields the applicant posts. *)
C7_StartsApplied ==
    [][\A w \in Workers :
          (pc[w] = "insert" /\ pc'[w] = "annotate")
              => ReviewState(apps'[Len(apps')]) = <<"applied", None, None, "">>]_vars

(* C8: a successful triage of an application in state applied sets the
   state to the submitted decision, one of the three, reviewed_by to the
   requester, reviewed_at to the time of the write, and the notes to the
   submitted notes, empty when none are given. *)
C8_TriageRecordsDecision ==
    [][/\ \A w \in Workers :
             (IdleWorker(w) /\ pc'[w] = "save")
                 => \A u \in Users, j \in JobIds, body \in ReviewBodies :
                        Triage_lookup(w, u, j, body.application_id, body.action,
                                      body.notes)
                            => (/\ ~IsNone(body.action)
                                /\ Val(body.action) \in Decisions
                                /\ apps[Val(body.application_id)].status = "applied"
                                /\ local'[w].application.id
                                       = Val(body.application_id)
                                /\ local'[w].user = u
                                /\ local'[w].action = Val(body.action)
                                /\ local'[w].notes =
                                       (IF IsNone(body.notes) THEN ""
                                        ELSE Val(body.notes)))
       /\ \A w \in Workers :
             Finishes(w, "save")
                 => LET o == local[w]
                    IN  /\ resp' = Response("review", 200)
                        /\ ReviewState(apps'[o.application.id])
                               = <<o.action, Some(o.user), Some(now), o.notes>>]_vars

(* The owner's rejection with notes has just been stored. *)
C8_RejectedWithNotes ==
    /\ resp = Response("review", 200)
    /\ \E a \in DOMAIN apps :
           ReviewState(apps[a])
               = <<"rejected", Some(JobOwner(apps[a].job)), Some(now - 1), "strong">>

(* C9, as stated: every triage whose decision is not one of accepted,
   rejected, maybe is rejected with a validation error and changes no
   application. *)
C9_InvalidDecisionIsValidationError ==
    [][\A w \in Workers, u \in Users, j \in JobIds, body \in ReviewBodies :
          (/\ Triage_lookup(w, u, j, body.application_id, body.action, body.notes)
           /\ (IsNone(body.action) \/ Val(body.action) \notin Decisions))
              => (resp' = Response("review", 400) /\ apps' = apps)]_vars

(* C9, amended: a triage whose decision is not one of accepted, rejected,
   maybe is refused and changes no application; it is refused with a
   validation error when the requester owns the job's company (any other
   requester is refused before the decision is looked at); and a triage
   stores no state but accepted, rejected or maybe. *)
C9_OwnersInvalidDecisionIsValidationError ==
    /\ [][/\ \A w \in Workers :
                (LooksLikeLookup(w) /\ ~Refused(w))
                    => \A u \in Users, j \in JobIds, body \in ReviewBodies :
                           Triage_lookup(w, u, j, body.application_id,
                                         body.action, body.notes)
                               => (~IsNone(body.action)
                                   /\ Val(body.action) \in Decisions)
          /\ \A w \in Workers :
                Finishes(w, "save")
                    => apps'[local[w].application.id].status \in Decisions]_vars
    /\ [](\A j \in Jobs, body \in ReviewBodies :
             (IsNone(body.action) \/ Val(body.action) \notin Decisions)
                 => review_application(JobOwner(j), j, body.application_id,
                                       body.action) = 400)

(* The owner's request was refused as invalid while application 1 waits
   for its triage. *)
C9_OwnerRefused ==
    /\ resp = Response("review", 400)
    /\ \A w \in Workers : pc[w] = "idle"
    /\ 1 \in DOMAIN apps
    /\ ReviewState(apps[1]) = <<"applied", None, None, "">>

(* C10: a submission for a job whose active flag is false fails with a
   not-found error and creates no application: no row is inserted for a
   job that is inactive. *)
C10_InactiveJobIsNotFound ==
    [][/\ \A w \in Workers, u \in Candidates, j \in Jobs :
             \A form \in FormChoices(u) :
                 (Submit_begin(w, u, j, form) /\ is_valid(form) /\ ~job_active[j])
                     => (pc'[w] = "idle" /\ resp' = Response("apply", 404))
       /\ \A w \in Workers :
             (pc[w] = "insert" /\ pc'[w] = "annotate")
                 => job_active[local[w].job]]_vars

(* A step that answers a review listing (the response names its request). *)
ListingStep == resp' # resp /\ resp'.op = "applications"

(* The ids of the applications a listing of job j has to show. *)
ToReview(j) == {a \in DOMAIN apps : apps[a].job = j /\ apps[a].status = "applied"}

(* The list shows exactly the applications of the job that wait for a
   decision, the scored ones by falling stored match_score. *)
ListsToReview(r) ==
    /\ r.code = 200
    /\ Len(r.body) = Cardinality(ToReview(r.arg))
    /\ {r.body[i].id : i \in DOMAIN r.body} = ToReview(r.arg)
    /\ \A i \in DOMAIN r.body : r.body[i].match_score = apps[r.body[i].id].match_score
    /\ \A i, k \in DOMAIN r.body :
           (/\ i < k
            /\ ~IsNone(r.body[i].match_score)
            /\ ~IsNone(r.body[k].match_score))
               => Val(r.body[i].match_score) >= Val(r.body[k].match_score)

(* C11 (as claimed): the review listing of a job returns exactly the
   applications of that job in state applied, in non-increasing order of
   stored match_score, and a requester who does not own the job's company
   gets an authorization error (403) and no application data. *)
C11_ListingForOwnerElseAuthorizationError ==
    [][(ListingStep /\ resp'.arg \in Jobs)
           => IF JobOwner(resp'.arg) = resp'.user
              THEN ListsToReview(resp')
              ELSE resp'.code = 403 /\ resp'.body = <<>>]_vars

(* C11 (amended): the owner's review listing of a job returns exactly the
   applications of that job in state applied, those with a stored
   match_score in non-increasing order of it; any other requester gets no
   application data: an authorization error (403) when it is a candidate
   and the job is active, and a not-found error (404) otherwise. *)
C11_ListingForOwnerElseRefused ==
    [][(ListingStep /\ resp'.arg \in Jobs)
           => IF JobOwner(resp'.arg) = resp'.user
              THEN ListsToReview(resp')
              ELSE /\ resp'.body = <<>>
                   /\ resp'.code = IF ~is_business(resp'.user) /\ job_active[resp'.arg]
                                   THEN 403 ELSE 404]_vars

(* C11 witness: an owner's listing of two scored applications, the one
   submitted later first because its score is higher. *)
C11_LaterApplicationListedFirst ==
    /\ resp.op = "applications"
    /\ resp.code = 200
    /\ Len(resp.body) = 2
    /\ resp.body[1].id > resp.body[2].id
    /\ ~IsNone(resp.body[2].match_score)
    /\ ~IsNone(resp.body[1].match_score)
    /\ Val(resp.body[1].match_score) > Val(resp.body[2].match_score)

(* A step that answers a recommendations request. *)
RecommendStep == resp' # resp /\ resp'.op = "recommendations"

(* The jobs a user may be recommended: active, and not applied to. *)
Eligible(u) ==
    {j \in Jobs :
        /\ job_active[j]
        /\ ~\E a \in DOMAIN apps : apps[a].applicant = u /\ apps[a].job = j}

(* The limit a recommendations request asks for (10 when it names none);
   None when the parameter is no number. *)
Limit(query) == IF IsNone(query) THEN Some(10) ELSE int(Val(query))

(* C12: every recommended job is active and has no application by the
   requesting candidate at the time of the call; an application, once
   stored, stays stored for its job and candidate, so the job never comes
   back into that candidate's recommendations. *)
C12_RecommendsActiveUnappliedJobs ==
    [][/\ RecommendStep
              => \A i \in DOMAIN resp'.body : resp'.body[i].job \in Eligible(resp'.user)
       /\ \A a \in DOMAIN apps :
              /\ a \in DOMAIN apps'
              /\ apps'[a].job = apps[a].job
              /\ apps'[a].applicant = apps[a].applicant]_vars

(* C12 witness: with both jobs active, a candidate who has applied to one
   of them is recommended the other one only. *)
C12_AppliedJobLeftOut ==
    /\ resp.op = "recommendations"
    /\ resp.code = 200
    /\ resp.arg = None
    /\ \A w \in Workers : pc[w] = "idle"
    /\ \A j \in Jobs : job_active[j]
    /\ Len(resp.body) = 1
    /\ \E a \in DOMAIN apps :
           apps[a].applicant = resp.user /\ apps[a].job # resp.body[1].job

(* C13: for a limit above 0 the recommendations are min(limit, number of
   eligible jobs) distinct eligible jobs with their overall scores, in
   non-increasing order of the score, and no eligible job left out scores
   strictly higher than a returned one. *)
C13_TopByOverallScore ==
    [][(RecommendStep /\ ~IsNone(Limit(resp'.arg)) /\ Val(Limit(resp'.arg)) > 0)
           => LET body == resp'.body
                  score(j) == calculate_overall_match(profiles[resp'.user],
                                                      JobData(j)).overall_score
              IN  /\ resp'.code = 200
                  /\ Len(body) = Min(Val(Limit(resp'.arg)),
                                     Cardinality(Eligible(resp'.user)))
                  /\ \A i \in DOMAIN body :
                         /\ body[i].job \in Eligible(resp'.user)
                         /\ body[i].match_score = score(body[i].job)
                  /\ \A i, k \in DOMAIN body :
                         i < k => /\ body[i].job # body[k].job
                                  /\ body[i].match_score >= body[k].match_score
                  /\ \A j \in Eligible(resp'.user) :
                         (\A i \in DOMAIN body : body[i].job # j)
                             => \A i \in DOMAIN body :
                                    score(j) <= body[i].match_score]_vars

(* C13 witness: limit=1 with two eligible jobs of different scores returns
   the one of the higher score. *)
C13_BestOfTwo ==
    /\ resp.op = "recommendations"
    /\ resp.code = 200
    /\ resp.arg = Some(<<"1">>)
    /\ Len(resp.body) = 1
    /\ \A w \in Workers : pc[w] = "idle"
    /\ Cardinality(Eligible(resp.user)) = 2
    /\ \E j \in Eligible(resp.user) :
           calculate_overall_match(profiles[resp.user], JobData(j)).overall_score
               < resp.body[1].match_score

(* C14: a recommendations request with limit <= 0 is rejected with a
   ValidationError (400) and returns no recommendation list. *)
C14_NonPositiveLimitIsValidationError ==
    [][(RecommendStep /\ ~IsNone(Limit(resp'.arg)) /\ Val(Limit(resp'.arg)) <= 0)
           => resp'.code = 400 /\ resp'.body = <<>>]_vars

(* The five stored scores of a row, and the five scores of a profile for a
   job as the row stores them. *)
Scores(row) ==
    <<row.match_score, row.skills_match_score, row.experience_match_score,
      row.location_match_score, row.salary_match_score>>
ScoresOf(profile, j) ==
    LET s == overall_match[profile, ((j - 1) % Len(JobChoices)) + 1]
    IN  <<Some(s.overall_score), Some(s.skills_score), Some(s.experience_score),
          Some(s.location_score), Some(s.salary_score)>>

(* C15: when update_application_scores completes, the application's five
   stored scores are those of calculate_overall_match for the applicant's
   profile at the time of the call and the job, whatever was stored before;
   at the end of a submission they are the scores of the profile the
   submission read, the one its snapshot was taken from. *)
C15_AnnotateStoresCurrentScores ==
    [][\A w \in Workers :
           /\ Finishes(w, "rescore")
                  => LET a == local[w].application.id
                     IN  Scores(apps'[a])
                             = ScoresOf(profiles[apps'[a].applicant], apps'[a].job)
           /\ Finishes(w, "annotate")
                  => LET a == local[w].application.id
                     IN  /\ Scores(apps'[a])
                                = ScoresOf(local[w].user_profile, apps'[a].job)
                         /\ apps'[a].skills_at_apply = local[w].user_profile.skills]_vars

(* C15 witness: an application scored again after its applicant's skills
   changed: it stores the scores of the profile as it is now. *)
C15_StaleScoresOverwritten ==
    /\ resp = Response("annotate", 200)
    /\ \E a \in DOMAIN apps :
           /\ apps[a].skills_at_apply # profiles[apps[a].applicant].skills
           /\ Scores(apps[a]) = ScoresOf(profiles[apps[a].applicant], apps[a].job)

(* The snapshot fields of a row. *)
Snapshot(row) ==
    <<row.experience_years_at_apply, row.skills_at_apply, row.salary_expectation,
      row.location_preference, row.remote_preference>>

(* C16: no step (profile edit, annotate, review listing, triage, another
   submission) removes an application or changes its snapshot fields:
   experience years, skill list, salary expectation, location preference
   and remote preference stay as written at submission. *)
C16_SnapshotNeverChanges ==
    [][\A a \in DOMAIN apps :
           a \in DOMAIN apps' /\ Snapshot(apps'[a]) = Snapshot(apps[a])]_vars

(* C16 witness: an application that went through a profile edit, a new
   scoring, a triage and a listing of its job, and whose snapshot still
   shows the skills at submission, not the profile's. *)
C16_SnapshotDiffersFromProfile ==
    /\ resp.op = "applications"
    /\ \E a \in DOMAIN apps :
           /\ apps[a].status = "accepted"
           /\ apps[a].skills_at_apply # profiles[apps[a].applicant].skills
           /\ Scores(apps[a]) = ScoresOf(profiles[apps[a].applicant], apps[a].job)

(* The five scores of a scoring response, in tenths of a point. *)
FiveScores(r) ==
    {r.match_scores.overall_score, r.match_scores.skills_score,
     r.match_scores.experience_score, r.match_scores.location_score,
     r.match_scores.salary_score}

(* C17: for every profile and job, whatever the salaries and experience
   and with optional fields left out, each of the four sub-scores and the
   overall score of calculate_overall_match lies in [0, 100]. *)
C17_ScoresWithinRange ==
    resp.op = "score" => \A s \in FiveScores(resp) : 0 <= s /\ s <= 1000

(* C18: two calls of calculate_overall_match with the same profile and the
   same job, on the same day, return the same five scores, whatever the
   rest of the system (the jobs open, the last response) looks like at the
   two calls. *)
C18_SameInputsSameScores ==
    [][(/\ resp.op = "score"
        /\ resp'.op = "score"
        /\ resp'.user_profile = resp.user_profile
        /\ resp'.job = resp.job)
           => resp'.match_scores = resp.match_scores]_vars

(* C18 witness: every worker has scored the same profile and job, in a run
   in which a job was closed meanwhile. *)
C18_ScoredTwiceAcrossJobClosing ==
    /\ resp.op = "score"
    /\ \A w \in Workers : pc[w] = "idle"
    /\ ~job_active[NumEmployers]

(* C19: the weights are 0.40 (skills), 0.25 (experience), 0.20 (location)
   and 0.15 (salary) and sum to 1.0; whenever the four sub-scores equal the
   same value X, the overall score is X, within the rounding to one
   decimal. *)
C19_WeightsSumToOne ==
    /\ weights = [skills |-> 40, experience |-> 25, location |-> 20, salary |-> 15]
    /\ weights.skills + weights.experience + weights.location + weights.salary = 100
    /\ (/\ resp.op = "score"
        /\ resp.match_scores.experience_score = resp.match_scores.skills_score
        /\ resp.match_scores.location_score = resp.match_scores.skills_score
        /\ resp.match_scores.salary_score = resp.match_scores.skills_score)
           => /\ resp.match_scores.overall_score >= resp.match_scores.skills_score - 1
              /\ resp.match_scores.overall_score <= resp.match_scores.skills_score + 1

(* C19 witness: a profile that matches a job fully in skills, experience,
   location and salary scores 100.0 overall. *)
C19_FullMatchScoresHundred ==
    /\ resp.op = "score"
    /\ resp.match_scores = [overall_score |-> 1000, skills_score |-> 1000,
                            experience_score |-> 1000, location_score |-> 1000,
                            salary_score |-> 1000]

(* The reference: the experience score in tenths of a point for years in
   tenths of a year; bands entry [0,2], mid [2,5], senior [5,10], executive
   [10,inf). *)
ReferenceExperience(years, level) ==
    LET lo == CASE level = "entry" -> 0 [] level = "mid" -> 20
                [] level = "senior" -> 50 [] level = "executive" -> 100
        hi == CASE level = "entry" -> 20 [] level = "mid" -> 50
                [] level = "senior" -> 100
    IN  IF level \notin {"entry", "mid", "senior", "executive"} THEN 500
        ELSE IF years < lo THEN Max(0, 1000 - 20 * (lo - years))
        ELSE IF level = "executive" \/ years <= hi THEN 1000
        ELSE Max(700, 1000 - 5 * (years - hi))

(* C20: the experience score is the reference piecewise function: 100.0
   for years within the level's band, both ends included; below the band
   max(0, 100 - 20 (min - years)); above it max(70, 100 - 5 (years - max)),
   never for executive; 50.0 for an unrecognized level. *)
C20_ExperienceIsPiecewiseReference ==
    resp.op = "score"
        => resp.match_scores.experience_score
               = ReferenceExperience(get_current_experience_years(resp.user_profile),
                                     resp.job.experience_level)

(* C20 witness: twenty years against an entry-level job score the floor of
   70.0. *)
C20_FarAboveBandScoresSeventy ==
    /\ resp.op = "score"
    /\ resp.job.experience_level = "entry"
    /\ get_current_experience_years(resp.user_profile) = 200
    /\ resp.match_scores.experience_score = 700

(* C21: for a remote job the location score depends only on the candidate's
   remote preference: exactly 100.0 when it is remote, hybrid or flexible,
   exactly 70.0 when it is on_site or unset, whatever the preferred
   locations and the job's location text. *)
C21_RemoteJobScoredByPreference ==
    (resp.op = "score" /\ resp.job.is_remote)
        => resp.match_scores.location_score =
               (IF resp.user_profile.remote_work_preference
                       \in {Some("remote"), Some("hybrid"), Some("flexible")}
                THEN 1000 ELSE 700)

(* C21 witness: a candidate who prefers on-site work in Kathmandu was
   scored 70.0 on a remote job located in Kathmandu. *)
C21_OnSiteCandidateRemoteJob ==
    /\ resp.op = "score"
    /\ resp.job.is_remote
    /\ resp.job.location = JobChoices[2].location
    /\ resp.user_profile.remote_work_preference = Some("on_site")
    /\ Len(resp.user_profile.preferred_locations) > 0
    /\ resp.match_scores.location_score = 700

(* The reference salary score in tenths of a point, for optional amounts;
   Missing(x) tells whether an amount counts as not given.  None where the
   reference divides by a job maximum of 0. *)
ReferenceSalary(profile, job, Missing(_)) ==
    IF Missing(profile.preferred_salary_min) \/ Missing(job.salary_max)
    THEN Some(750)
    ELSE LET candidate_min == 2 * Val(profile.preferred_salary_min)
             candidate_max == IF Missing(profile.preferred_salary_max)
                              THEN 3 * Val(profile.preferred_salary_min)
                              ELSE 2 * Val(profile.preferred_salary_max)
             job_lo == IF Missing(job.salary_min) THEN 0
                       ELSE 2 * Val(job.salary_min)
             job_hi == 2 * Val(job.salary_max)
             lo == Max(candidate_min, job_lo)
             hi == Min(candidate_max, job_hi)
             width == candidate_max - candidate_min
             excess == candidate_min - job_hi
         IN  IF lo <= hi
             THEN IF width = 0 THEN Some(900)
                  ELSE Some(Min(1000, 800 + RoundHalfEven(200 * (hi - lo), width)))
             ELSE IF candidate_min <= job_hi THEN Some(950)
             ELSE IF job_hi = 0 THEN None
             ELSE IF job_hi > 0
             THEN Some(Max(200, 800 - RoundHalfEven(1000 * excess, job_hi)))
             ELSE Some(Max(200, 800 + RoundHalfEven(1000 * excess, 0 - job_hi)))

(* C22, as stated: the salary score equals the reference piecewise
   function, an amount counting as not given when the column is empty: 75.0
   when the candidate has no minimum or the job has no maximum; otherwise,
   with candidate_max defaulting to 1.5 candidate_min and job_min to 0, an
   overlap scores min(100, 80 + 20 overlap / width) for a positive width and
   90.0 for a zero width; no overlap scores max(20, 80 - 100 (candidate_min
   - job_max) / job_max) when candidate_min > job_max and 95.0 otherwise. *)
C22_SalaryIsReferenceOfGivenAmounts ==
    resp.op = "score"
        => Some(resp.match_scores.salary_score)
               = ReferenceSalary(resp.user_profile, resp.job, IsNone)

(* C22, amended: the same, an amount counting as not given when the column
   is empty or holds 0. *)
C22_SalaryIsReferenceOfNonZeroAmounts ==
    resp.op = "score"
        => Some(resp.match_scores.salary_score)
               = ReferenceSalary(resp.user_profile, resp.job, Falsy)

(* C22 witness: a candidate asking for 2000 was scored 20.0 on a job paying
   at most 1000. *)
C22_TwiceTheOfferScoresTwenty ==
    /\ resp.op = "score"
    /\ resp.user_profile.preferred_salary_min = Some(2000)
    /\ resp.job.salary_max = Some(1000)
    /\ resp.match_scores.salary_score = 200

(* Scenario A has been scored: the candidate with skills Python and django,
   3 years, remote preference remote and a minimum of 900 against the remote
   mid-level job asking for Python and Django and paying 800 to 1200. *)
ScenarioA ==
    /\ resp.op = "score"
    /\ resp.user_profile = ProfileChoices[1]
    /\ resp.job = JobChoices[1]

(* C23, as stated: in scenario A skills, experience and location score
   100, the salary scores 100 because the overlap counts as fully inside,
   and the overall score is 100; "about 100" is read as within one point. *)
C23_ScenarioAScoresHundred ==
    ScenarioA
        => /\ resp.match_scores.experience_score = 1000
           /\ resp.match_scores.location_score = 1000
           /\ \A s \in FiveScores(resp) : 990 <= s /\ s <= 1000

(* C23, amended: in scenario A skills, experience and location score
   100.0; the candidate's range is 900 to 1350, of which 300 of 450 lie in
   the job's range, so the salary scores 93.3 and the overall score is
   99.0. *)
C23_ScenarioAScoresNinetyNine ==
    ScenarioA
        => resp.match_scores = [overall_score |-> 990, skills_score |-> 1000,
                                experience_score |-> 1000,
                                location_score |-> 1000, salary_score |-> 933]

(* C23 witness: scenario A has been scored by every worker and its salary
   score is below 100. *)
C23_ScenarioAScored ==
    /\ ScenarioA
    /\ \A w \in Workers : pc[w] = "idle"
    /\ resp.match_scores.salary_score < 1000

(* C25: if the candidate's skill list is empty, or no skill is extracted
   from the job's requirements and description, the skills score is
   exactly 0.0. *)
C25_NothingToCompareScoresZero ==
    (/\ resp.op = "score"
     /\ \/ Len(resp.user_profile.skills) = 0
        \/ extract_skills_from_text(resp.job.requirements \o <<" ">>
                                        \o resp.job.description) = {})
        => resp.match_scores.skills_score = 0

(* C25 witness: a candidate with skills was scored 0.0 on a job whose text
   names no skill. *)
C25_JobTextWithoutSkills ==
    /\ resp.op = "score"
    /\ Len(resp.user_profile.skills) > 0
    /\ extract_skills_from_text(resp.job.requirements \o <<" ">>
                                    \o resp.job.description) = {}
    /\ resp.match_scores.skills_score = 0

(* The skills, experience, location and salary scores s of a profile for a
   job are numbers, with the neutral value wherever the profile leaves the
   input out: 0.0 without skills, the score of 0 years without experience,
   70.0 (remote job) without a remote preference, 50.0 (on-site job)
   without preferred locations, 75.0 without a salary preference. *)
DegradesToNeutral(profile, job, s) ==
    /\ \A i \in 1..4 : s[i] \in Int
    /\ Len(profile.skills) = 0 => s[1] = 0
    /\ (IsNone(profile.experience_years) /\ IsNone(profile.experience_start_date))
           => s[2] = ReferenceExperience(0, job.experience_level)
    /\ (job.is_remote /\ IsNone(profile.remote_work_preference)) => s[3] = 700
    /\ (~job.is_remote /\ Len(profile.preferred_locations) = 0) => s[3] = 500
    /\ IsNone(profile.preferred_salary_min) => s[4] = 750

(* C24: scoring never fails on a sparse profile: with any subset of the
   optional inputs left out, the prefill of an active job answers 200 with
   five scores, the recommendations answer 200 with five scores for every
   job, and the annotate of a submission stores five scores and answers
   201; a score whose input is left out is the neutral value. *)
C24_SparseProfileIsScored ==
    [][/\ (/\ resp' # resp /\ resp'.op = "prefill"
           /\ ~IsNone(resp'.arg) /\ Val(resp'.arg) \in active_jobs)
              => LET m == resp'.body.match_scores
                 IN  /\ resp'.code = 200
                     /\ m.overall_score \in Int
                     /\ DegradesToNeutral(profiles'[resp'.user],
                                          JobData(Val(resp'.arg)),
                                          <<m.skills_score, m.experience_score,
                                            m.location_score, m.salary_score>>)
       /\ RecommendStep
              => /\ resp'.code = 200
                 /\ \A i \in DOMAIN resp'.body :
                        LET r == resp'.body[i]
                        IN  /\ r.match_score \in Int
                            /\ DegradesToNeutral(profiles[resp'.user],
                                                 JobData(r.job),
                                                 <<r.skills_match, r.experience_match,
                                                   r.location_match, r.salary_match>>)
       /\ \A w \in Workers :
              Finishes(w, "annotate")
                  => LET row == apps'[local[w].application.id]
                     IN  /\ resp' = Response("apply", 201)
                         /\ \A i \in 1..5 : ~IsNone(Scores(row)[i])
                         /\ Val(row.match_score) \in Int
                         /\ DegradesToNeutral(local[w].user_profile, JobData(row.job),
                                              <<Val(row.skills_match_score),
                                                Val(row.experience_match_score),
                                                Val(row.location_match_score),
                                                Val(row.salary_match_score)>>)]_vars

(* C24 witness: the candidate whose profile leaves every optional input out
   has applied to the on-site job, and the application carries the five
   scores 21.2, 0.0, 0.0, 50.0 and 75.0. *)
C24_EmptyProfileAnnotated ==
    /\ resp = Response("apply", 201)
    /\ profiles[Editor] = Without(FullProfile, OptionalInputs)
    /\ \E a \in DOMAIN apps :
           /\ apps[a].applicant = Editor
           /\ Scores(apps[a]) = <<Some(212), Some(0), Some(0), Some(500), Some(750)>>

(* C26: SubmitApplication takes effect as one atomic write: no concurrent
   operation observes an application that is stored but does not carry its
   five match scores yet; here the observer is the owner's review listing,
   which never shows a row with a score missing. *)
C26_ListingNeverShowsScorelessApplication ==
    [][(ListingStep /\ resp'.code = 200)
           => \A i \in DOMAIN resp'.body :
                  /\ ~IsNone(resp'.body[i].match_score)
                  /\ ~IsNone(resp'.body[i].skills_match_score)
                  /\ ~IsNone(resp'.body[i].experience_match_score)
                  /\ ~IsNone(resp'.body[i].location_match_score)
                  /\ ~IsNone(resp'.body[i].salary_match_score)]_vars

(* C28: no update is lost between annotate and triage of one application:
   the save of an annotate (the one that ends SubmitApplication included)
   leaves the row's review state as it is stored, and the save of a triage
   leaves the row's five scores as they are stored. *)
C28_AnnotateAndTriageKeepEachOthersFields ==
    [][\A w \in Workers :
          /\ Finishes(w, "annotate")
                 => ReviewState(apps'[local[w].application.id])
                        = ReviewState(apps[local[w].application.id])
          /\ Finishes(w, "save")
                 => Scores(apps'[local[w].application.id])
                        = Scores(apps[local[w].application.id])]_vars

(* C29: in every reachable state an application is in state applied
   exactly when it has no reviewer and no review timestamp, and the
   reviewer of every application not in state applied is the owner of the
   company of its job. *)
C29_ReviewedExactlyWhenNotApplied ==
    \A a \in DOMAIN apps :
        /\ apps[a].status = "applied"
               <=> (IsNone(apps[a].reviewed_by) /\ IsNone(apps[a].reviewed_at))
        /\ apps[a].status # "applied"
               => apps[a].reviewed_by = Some(JobOwner(apps[a].job))

(* C30: the read operations GetRecommendations, GetApplicationPrefill and
   ListApplicationsForReview leave every stored profile, job and
   application as it is. *)
C30_ReadsWriteNothing ==
    [][(resp' # resp /\ resp'.op \in {"recommendations", "prefill", "applications"})
           => UNCHANGED <<job_active, profiles, apps>>]_vars

(* The place of job j in the order the query delivers the jobs in. *)
Position(jobs, j) == CHOOSE i \in DOMAIN jobs : jobs[i] = j

(* The overall score of the candidate's stored profile for job j. *)
OverallScore(u, j) ==
    overall_match[profiles[u], ((j - 1) % Len(JobChoices)) + 1].overall_score

(* C27: in GetRecommendations jobs of equal overall score keep the order the
   storage delivers them in, and the list is cut after it is sorted: for
   every order of delivery and every limit, each returned job has a higher
   score than, or the same score as and an earlier place than, every job
   that is not returned before it. *)
C27_TiesKeepIterationOrder ==
    \A jobs \in Orders(Eligible(Editor)), limit \in 1..NumEmployers :
        LET r == get_job_recommendations(Editor, limit, jobs)
        IN  /\ Len(r) = Min(limit, Len(jobs))
            /\ \A i \in DOMAIN r :
                   \A j \in Eligible(Editor) \ {r[k].job : k \in 1..i} :
                       \/ r[i].match_score > OverallScore(Editor, j)
                       \/ /\ r[i].match_score = OverallScore(Editor, j)
                          /\ Position(jobs, r[i].job) < Position(jobs, j)

(* C27 witness: the candidate's two eligible jobs score the same and a
   request for one recommendation was answered with one of them. *)
C27_OneOfTwoTiedJobsReturned ==
    /\ resp.op = "recommendations"
    /\ resp.user = Editor
    /\ resp.arg = Some(<<"1">>)
    /\ Eligible(Editor) = Jobs
    /\ OverallScore(Editor, 1) = OverallScore(Editor, 2)
    /\ Len(resp.body) = 1
    /\ resp.body[1].match_score = OverallScore(Editor, 1)

====
